---- MODULE Spec2Model ----
(***************************************************************************)
(* A model of the GitHub Repo Jutsu pipeline services:                     *)
(*   getAnimeBadge   (OpenRouter variant, src/services/geminiService.ts)   *)
(*   generateAvatar  (ImageRouter variant, src/services/geminiService.ts)  *)
(*   generateAvatar  (lookup/fallback variant, same file, lines 345-391)   *)
(*                                                                         *)
(* Text is a sequence of tokens and a token is a sequence of strings, so   *)
(* that all tokens are comparable.  One-string tokens stand for a single   *)
(* character (a backtick, a newline, a blank, a brace, a comma) or for an  *)
(* indivisible run of characters ("json", "null", a word).  A token        *)
(* <<"pair", key, type, c1, ..., cn>> stands for the JSON member           *)
(* "key": value, whose value has the given type and, for a string, the     *)
(* characters c1..cn.  An error message is a sequence of chunks (words or  *)
(* phrases, read as separated by blanks).                                  *)
(***************************************************************************)
EXTENDS Integers, Sequences, FiniteSets, TLC

\* ------------------------------------------------------------------ bounds

\* longest payload put between the two fences of a fenced response
MaxPayloadLen == 3
\* most repositories in a profile handed to getAnimeBadge
MaxRepos == 1

\* the longest bio, the longest repository description and the most
\* repositories of the profiles handed to the prompt builder
MaxBioLen == 121

MaxDescLen == 81

MaxPromptRepos == 11

\* the searches started in one session of the page
MaxSearches == 2

\* ------------------------------------------------------- program constants

REQUEST_TIMEOUT == 30000

\* ---------------------------------------------------------------- helpers

Range(s) == {s[i] : i \in 1..Len(s)}

\* all sequences over S of length 0..n
SeqsUpTo(S, n) == UNION {[1..k -> S] : k \in 0..n}

\* ------------------------------------------------------- JavaScript values

\* a JavaScript value: its type and, for strings and numbers, its characters
JsUndefined == [t |-> "undefined", v |-> <<>>]

JsNull == [t |-> "null", v |-> <<>>]

JsStr(chars) == [t |-> "string", v |-> chars]

JsNum(digits) == [t |-> "number", v |-> digits]

JsFunction == [t |-> "function", v |-> <<"Object">>]

\* ToBoolean: undefined, null, "" and 0 are falsy, everything else is truthy
Truthy(x) ==
    CASE x.t \in {"undefined", "null"} -> FALSE
      [] x.t = "string" -> x.v # <<>>
      [] x.t = "number" -> x.v # <<"0">>
      [] OTHER -> TRUE

\* ------------------------------------------------------------------ tokens

\* one backtick character
BT == <<"tick">>

NL == <<"\n">>

SP == <<" ">>

LBRACE == <<"{">>

RBRACE == <<"}">>

COMMA == <<",">>

JSONWORD == <<"json">>

NULLWORD == <<"null">>

Word(w) == <<"word", w>>

Pair(key, x) == <<"pair", key, x.t>> \o x.v

IsPair(tok) == Len(tok) >= 3 /\ tok[1] = "pair"

PairKey(tok) == tok[2]

PairValue(tok) == [t |-> tok[3], v |-> SubSeq(tok, 4, Len(tok))]

\* the class \s of the regular expression and of String.prototype.trim
IsWs(tok) == tok \in {SP, NL}

\* String.prototype.trim
RECURSIVE TrimLeft(_)
TrimLeft(s) == IF s # <<>> /\ IsWs(Head(s)) THEN TrimLeft(Tail(s)) ELSE s

RECURSIVE TrimRight(_)
TrimRight(s) ==
    IF s # <<>> /\ IsWs(s[Len(s)]) THEN TrimRight(SubSeq(s, 1, Len(s) - 1)) ELSE s

Trim(s) == TrimRight(TrimLeft(s))

\* the characters of a text, as the chunks of a message that quotes it
RECURSIVE Flatten(_)
Flatten(s) == IF s = <<>> THEN <<>> ELSE Head(s) \o Flatten(Tail(s))

\* ------------------------------------------------- the code-fence pattern

(***************************************************************************)
(* /^```(?:json)?\s*\n?([\s\S]*?)\n?\s*```$/ applied to t, as a backtracking *)
(* matcher runs it: (?:json)?, \s* and \n? are greedy (the longer way is    *)
(* tried first), the group is lazy (the shorter way is tried first), and    *)
(* the first way that reaches the end of t is the match.                    *)
(***************************************************************************)

\* what one character of the group may be: [\s\S] is any character
DotNoNewline(tok) == tok # NL

GroupChar(tok) == TRUE

\* \n?\s*```$ from position p + 1 on: white space, the closing fence, the end
ClosesAfter(t, p) ==
    /\ p + 3 <= Len(t)
    /\ \A i \in (p + 1)..(Len(t) - 3) : IsWs(t[i])
    /\ \A i \in (Len(t) - 2)..Len(t) : t[i] = BT

\* the lazy group from position p + 1 on, tried with c characters and then with
\* more: the length of the group of the first way that matches, -1 when none
RECURSIVE LazyGroup(_, _, _)
LazyGroup(t, p, c) ==
    IF ClosesAfter(t, p + c) THEN c
    ELSE IF p + c + 1 <= Len(t) /\ GroupChar(t[p + c + 1]) THEN LazyGroup(t, p, c + 1)
    ELSE -1

\* \n? after position p: with the newline first, then without it
OptionalNewline(t, p) ==
    LET with == IF p + 1 <= Len(t) /\ t[p + 1] = NL THEN LazyGroup(t, p + 1, 0) ELSE -1
    IN  IF with >= 0 THEN [from |-> p + 2, len |-> with]
        ELSE [from |-> p + 1, len |-> LazyGroup(t, p, 0)]

\* the number of white-space characters that follow position p
RECURSIVE WsRun(_, _)
WsRun(t, p) == IF p + 1 <= Len(t) /\ IsWs(t[p + 1]) THEN 1 + WsRun(t, p + 1) ELSE 0

\* \s* after position p consuming a characters, and then fewer
RECURSIVE GreedyWs(_, _, _)
GreedyWs(t, p, a) ==
    LET m == OptionalNewline(t, p + a)
    IN  IF m.len >= 0 THEN m
        ELSE IF a > 0 THEN GreedyWs(t, p, a - 1)
        ELSE [from |-> 0, len |-> -1]

\* jsonStr.match(fenceRegex): whether it matched, and match[1]
FenceMatch(t) ==
    IF ~(Len(t) >= 3 /\ \A i \in 1..3 : t[i] = BT)
    THEN [matched |-> FALSE, group |-> <<>>]
    ELSE LET withJson == IF Len(t) >= 4 /\ t[4] = JSONWORD
                         THEN GreedyWs(t, 4, WsRun(t, 4))
                         ELSE [from |-> 0, len |-> -1]
             m == IF withJson.len >= 0 THEN withJson ELSE GreedyWs(t, 3, WsRun(t, 3))
         IN  IF m.len < 0
             THEN [matched |-> FALSE, group |-> <<>>]
             ELSE [matched |-> TRUE, group |-> SubSeq(t, m.from, m.from + m.len - 1)]

\* if (match && match[1]) jsonStr = match[1].trim();
UnwrapFenceNever(jsonStr) == jsonStr

UnwrapFence(jsonStr) ==
    LET m == FenceMatch(jsonStr)
    IN  IF m.matched /\ m.group # <<>> THEN Trim(m.group) ELSE jsonStr

\* ------------------------------------------------------------- JSON.parse

\* the result of JSON.parse: a syntax error, or a value; an object is given by
\* its members (the last member of a name wins)
ParseError == [ok |-> FALSE, kind |-> "error", members |-> <<>>]

ParsedNull == [ok |-> TRUE, kind |-> "null", members |-> <<>>]

ParsedObject(ms) == [ok |-> TRUE, kind |-> "object", members |-> ms]

\* s without its white space, which JSON allows between any two tokens
Significant(s) == SelectSeq(s, LAMBDA tok : ~IsWs(tok))

IsMemberList(ms) ==
    \/ ms = <<>>
    \/ /\ Len(ms) % 2 = 1
       /\ \A i \in 1..Len(ms) : IF i % 2 = 1 THEN IsPair(ms[i]) ELSE ms[i] = COMMA

ParseJSON(text) ==
    LET s == Significant(text)
    IN  IF s = <<NULLWORD>> THEN ParsedNull
        ELSE IF /\ Len(s) >= 2
                /\ s[1] = LBRACE
                /\ s[Len(s)] = RBRACE
                /\ IsMemberList(SubSeq(s, 2, Len(s) - 1))
        THEN ParsedObject(SelectSeq(SubSeq(s, 2, Len(s) - 1), IsPair))
        ELSE ParseError

\* parsedData.<key>: the value of the property of a parsed object
RECURSIVE Property(_, _)
Property(ms, key) ==
    IF ms = <<>> THEN JsUndefined
    ELSE IF PairKey(ms[Len(ms)]) = key THEN PairValue(ms[Len(ms)])
    ELSE Property(SubSeq(ms, 1, Len(ms) - 1), key)

\* the wording of the SyntaxError that JSON.parse raises, by JavaScript engine
ParserWordings == {"v8", "v8legacy", "spidermonkey", "jsc"}

SyntaxErrorMessage(wording, text) ==
    CASE wording = "v8" ->
            <<"Unexpected token">> \o Flatten(text) \o <<"is not valid JSON">>
      [] wording = "v8legacy" -> <<"Unexpected token", "in JSON at position", "0">>
      [] wording = "spidermonkey" ->
            <<"JSON.parse", ":", "unexpected character at line 1 column 1 of the JSON data">>
      [] wording = "jsc" -> <<"JSON Parse error", ":", "Unexpected identifier">>

\* ------------------------------------------------------------------ errors

\* a thrown value: nullish when it is undefined or null, hasMsg when it has a
\* string message
MkError(name, msg) == [name |-> name, msg |-> msg, hasMsg |-> TRUE, nullish |-> FALSE]

NoError == [name |-> "none", msg |-> <<>>, hasMsg |-> FALSE, nullish |-> FALSE]

\* String.prototype.includes, for a needle that is one chunk
Includes(msg, needle) == needle \in Range(msg)

InvalidProfileMsg == <<"Invalid profile data provided">>

InvalidBadgeMsg == <<"Invalid badge data provided">>

OpenRouterKeyMsg == <<"OPENROUTER_API_KEY", "environment variable", "not set">>

ImageRouterKeyMsg == <<"IMAGEROUTER_API_KEY", "environment variable", "not set">>

TimedOutMsg == <<"Request timed out. Please try again.">>

ImageTimedOutMsg == <<"Image generation request timed out. Please try again.">>

InvalidResponseMsg == <<"The AI returned an invalid response. Please try again.">>

InvalidStructureMsg == <<"Invalid response structure from OpenRouter API">>

MissingFieldsMsg == <<"AI response is missing required fields.">>

NoImageMsg == <<"ImageRouter model did not return an image.">>

\* throw new Error(`OpenRouter API error: ${status} ${statusText} - ${errorText}`)
OpenRouterHttpMsg(r) ==
    <<"OpenRouter API error:", ToString(r.status), r.statusText, "-">> \o r.body

\* throw new Error(`ImageRouter API error: ${status} ${statusText}`)
ImageRouterHttpMsgNoStatus(r) == <<"ImageRouter API error:", r.statusText>>

ImageRouterHttpMsg(r) == <<"ImageRouter API error:", ToString(r.status), r.statusText>>

\* message.replace(/Bearer [^\s]+/g, 'Bearer [REDACTED]'): the chunk after a
\* chunk "Bearer" is the credential
Sanitize(msg) ==
    [i \in 1..Len(msg) |->
        IF i > 1 /\ msg[i - 1] = "Bearer" /\ msg[i] \notin {" ", "\n"}
        THEN "[REDACTED]" ELSE msg[i]]

SanitizedOrUnknown(msg) == IF msg = <<>> THEN <<"Unknown error">> ELSE Sanitize(msg)

\* a TypeError raised by the catch handler itself
HandlerTypeError == MkError("TypeError", <<"Cannot read properties of undefined">>)

\* the catch handler of getAnimeBadge: the error the call fails with
BadgeCatchNoAbortCheck(error) ==
    IF error.nullish \/ ~error.hasMsg THEN HandlerTypeError
    ELSE IF Includes(error.msg, "JSON.parse") THEN MkError("Error", InvalidResponseMsg)
    ELSE IF Includes(error.msg, "environment variable") THEN error
    ELSE MkError("Error",
            <<"Failed to get anime badge from OpenRouter:">> \o SanitizedOrUnknown(error.msg))

BadgeCatch(error) ==
    IF error.nullish THEN HandlerTypeError
    ELSE IF error.name = "AbortError" THEN MkError("Error", TimedOutMsg)
    ELSE IF ~error.hasMsg THEN HandlerTypeError
    ELSE IF Includes(error.msg, "JSON.parse") THEN MkError("Error", InvalidResponseMsg)
    ELSE IF Includes(error.msg, "environment variable") THEN error
    ELSE MkError("Error",
            <<"Failed to get anime badge from OpenRouter:">> \o SanitizedOrUnknown(error.msg))

\* the catch handler of the generative generateAvatar
AvatarCatch(error) ==
    IF error.nullish THEN HandlerTypeError
    ELSE IF error.name = "AbortError" THEN MkError("Error", ImageTimedOutMsg)
    ELSE IF ~error.hasMsg THEN HandlerTypeError
    ELSE IF Includes(error.msg, "environment variable") THEN error
    ELSE MkError("Error",
            <<"Failed to generate the character avatar:">>
                \o SanitizedOrUnknown(error.msg) \o <<". Please try again.">>)

\* what fetch rejects with when the controller aborts the request
AbortError == MkError("AbortError", <<"The operation was aborted.">>)

\* what fetch, response.text() and response.json() reject with on a network
\* failure: an Error, a value without a message (a string), or undefined
NetworkErrors ==
    { MkError("TypeError", <<"Failed to fetch">>),
      MkError("Error", <<"Network error">>),
      MkError("Error", <<"request with", "Bearer", "sk-or-v1-0f3a", "failed">>),
      [name |-> "undefined", msg |-> <<>>, hasMsg |-> FALSE, nullish |-> FALSE],
      [name |-> "undefined", msg |-> <<>>, hasMsg |-> FALSE, nullish |-> TRUE] }

\* ------------------------------------------------------------------ inputs

\* a repository of a profile
SampleRepo == [name |-> "linux", description |-> JsNull, language |-> "C", stars |-> 1]

\* profileData: present is FALSE for undefined or null, hasUser is FALSE when
\* it has no user, reposIsArray is FALSE when repos is not an array
MkProfile(present, hasUser, login, reposIsArray, repos) ==
    [present |-> present, hasUser |-> hasUser, login |-> login, bio |-> JsNull,
     reposIsArray |-> reposIsArray, repos |-> repos]

NoProfile == MkProfile(FALSE, FALSE, JsUndefined, FALSE, <<>>)

InvalidProfiles ==
    { NoProfile,
      MkProfile(TRUE, FALSE, JsUndefined, TRUE, <<>>),
      MkProfile(TRUE, TRUE, JsUndefined, TRUE, <<>>),
      MkProfile(TRUE, TRUE, JsStr(<<>>), TRUE, <<>>),
      MkProfile(TRUE, TRUE, JsStr(<<"octocat">>), FALSE, <<>>) }

ValidProfiles ==
    { MkProfile(TRUE, TRUE, JsStr(<<"octocat">>), TRUE, repos) :
        repos \in SeqsUpTo({SampleRepo}, MaxRepos) }

Profiles == InvalidProfiles \cup ValidProfiles

\* !profileData?.user?.login || !Array.isArray(profileData.repos), negated
ValidProfileIgnoringRepos(p) == p.present /\ p.hasUser /\ Truthy(p.login)

ValidProfile(p) == p.present /\ p.hasUser /\ Truthy(p.login) /\ p.reposIsArray

\* a text of n characters
Chars(n) == [i \in 1..n |-> "a"]

\* the profiles handed to the prompt builder: a bio of any length up to
\* MaxBioLen (or none), up to MaxPromptRepos repositories, each with no
\* description or with one of MaxDescLen characters
PromptProfiles ==
    { [MkProfile(TRUE, TRUE, JsStr(<<"octocat">>), TRUE,
                 [i \in 1..n |-> [SampleRepo EXCEPT !.description = d]])
         EXCEPT !.bio = b] :
        n \in 0..MaxPromptRepos,
        d \in {JsNull, JsStr(Chars(MaxDescLen))},
        b \in {JsNull} \cup { JsStr(Chars(k)) : k \in 0..MaxBioLen } }

\* the summary that generateUserPrompt embeds in the prompt
GenerateUserPrompt(p) ==
    [login |-> p.login,
     bio |-> p.bio,
     top_repos |-> [i \in 1..Len(p.repos) |->
                       [name |-> p.repos[i].name,
                        description |-> p.repos[i].description,
                        language |-> p.repos[i].language,
                        stars |-> p.repos[i].stars]]]

\* the four fields of an AnimeBadge
BadgeFields == <<"characterName", "anime", "reason", "badgeColor">>

\* a badge argument of generateAvatar; present is FALSE for undefined or null
MkBadge(present, characterName, anime, badgeColor) ==
    [present |-> present, characterName |-> characterName, anime |-> anime,
     badgeColor |-> badgeColor]

NoBadge == MkBadge(FALSE, JsUndefined, JsUndefined, JsUndefined)

Orange == JsStr(<<"#", "F", "F", "7", "F", "0", "0">>)

CharacterNames ==
    { JsStr(<<"Naruto">>), JsStr(<<"Tanjiro">>), JsStr(<<"Zoro">>),
      JsStr(<<"constructor">>), JsStr(<<>>), JsUndefined }

AnimeNames ==
    { JsStr(<<"Naruto">>), JsStr(<<"Demon Slayer">>), JsStr(<<"One Piece">>), JsStr(<<>>) }

Badges ==
    {NoBadge} \cup
    { MkBadge(TRUE, c, a, k) :
        c \in CharacterNames, a \in AnimeNames, k \in {Orange, JsStr(<<>>)} }

\* --------------------------------------------------- the model's responses

\* the text of a JSON object with the given members
RECURSIVE MemberList(_)
MemberList(ps) ==
    IF ps = <<>> THEN <<>>
    ELSE IF Len(ps) = 1 THEN <<ps[1]>>
    ELSE <<ps[1], COMMA>> \o MemberList(Tail(ps))

ObjectText(ps) == <<LBRACE>> \o MemberList(ps) \o <<RBRACE>>

\* the same, one member a line
RECURSIVE MemberLines(_)
MemberLines(ps) ==
    IF ps = <<>> THEN <<>>
    ELSE IF Len(ps) = 1 THEN <<SP, ps[1], NL>>
    ELSE <<SP, ps[1], COMMA, NL>> \o MemberLines(Tail(ps))

PrettyObjectText(ps) == <<LBRACE, NL>> \o MemberLines(ps) \o <<RBRACE>>

\* the member of a field, none when the value is undefined
MemberOf(key, x) == IF x.t = "undefined" THEN <<>> ELSE <<Pair(key, x)>>

BadgeMembers(c, a, r, k) ==
    MemberOf("characterName", c) \o MemberOf("anime", a)
        \o MemberOf("reason", r) \o MemberOf("badgeColor", k)

GoodMembers ==
    BadgeMembers(JsStr(<<"Naruto">>), JsStr(<<"Naruto">>), JsStr(<<"reason">>), Orange)

\* values of badgeColor that a model may answer
Colors ==
    { Orange,
      JsStr(<<"#", "a", "b", "c", "d", "e", "f">>),
      JsStr(<<"F", "F", "7", "F", "0", "0">>),
      JsStr(<<"#", "G", "G", "7", "F", "0", "0">>),
      JsStr(<<"#", "F", "F", "7", "F">>),
      JsStr(<<"o", "r", "a", "n", "g", "e">>) }

\* present and non-empty, absent, or empty
FieldChoices(good) == {good, JsUndefined, JsStr(<<>>)}

\* the bare JSON texts
BareContents ==
    { ObjectText(BadgeMembers(c, a, r, k)) :
        c \in FieldChoices(JsStr(<<"Naruto">>)),
        a \in FieldChoices(JsStr(<<"Demon Slayer">>)),
        r \in FieldChoices(JsStr(<<"reason">>)),
        k \in FieldChoices(Orange) }
    \cup
    { ObjectText(BadgeMembers(JsStr(<<"Tanjiro">>), JsStr(<<"Demon Slayer">>),
                              JsStr(<<"reason">>), k)) : k \in Colors }
    \cup
    { ObjectText(BadgeMembers(JsStr(<<"Test">>), JsNull, JsNum(<<"0">>), Orange)),
      ObjectText(BadgeMembers(JsStr(<<"Test">>), JsNum(<<"5">>), JsStr(<<"reason">>), Orange)),
      ObjectText(GoodMembers \o <<Pair("reason", JsStr(<<>>))>>),
      PrettyObjectText(GoodMembers),
      <<NL>> \o ObjectText(GoodMembers) \o <<SP, NL>>,
      <<NULLWORD>>,
      <<Word("Invalid"), SP, Word("JSON"), SP, Word("content")>>,
      <<>> }

\* ``` or ```json, a newline, the payload, a newline, ```
Fenced(lang, payload) ==
    <<BT, BT, BT>> \o (IF lang THEN <<JSONWORD>> ELSE <<>>) \o <<NL>>
        \o payload \o <<NL, BT, BT, BT>>

PayloadAlphabet ==
    { NL, SP, BT, LBRACE, RBRACE, Word("x"),
      Pair("characterName", JsStr(<<"Naruto">>)) }

\* the payloads that come fenced
Payloads ==
    SeqsUpTo(PayloadAlphabet, MaxPayloadLen)
    \cup { ObjectText(GoodMembers), PrettyObjectText(GoodMembers),
           ObjectText(<<>>) \o <<NL>> \o ObjectText(<<>>) }

FencedContents == {Fenced(lang, p) : lang \in BOOLEAN, p \in Payloads}

\* the fenced texts with white space around them
PaddedContents ==
    { <<SP>> \o Fenced(TRUE, ObjectText(GoodMembers)) \o <<NL>>,
      <<NL>> \o Fenced(FALSE, <<SP, LBRACE, RBRACE>>) }

Contents == BareContents \cup FencedContents \cup PaddedContents

\* ------------------------------------------------------ upstream responses

StatusText(status) ==
    CASE status = 200 -> "OK"
      [] status = 403 -> "Forbidden"
      [] status = 404 -> "Not Found"
      [] status = 429 -> "Too Many Requests"
      [] status = 500 -> "Internal Server Error"

\* a response: its status, the text of its body (of an error response), the
\* shape of its JSON body, the content of the chat message and, for the image
\* and search endpoints, the value found at image.base64 or image_url
MkResponse(status, body, shape, content, value) ==
    [status |-> status, statusText |-> StatusText(status), body |-> body,
     shape |-> shape, content |-> content, value |-> value]

NoResponse == [status |-> 0, statusText |-> "", body |-> <<>>, shape |-> "none",
               content |-> <<>>, value |-> JsUndefined]

\* response.ok
Ok(r) == r.status \in 200..299

\* the bodies of error responses
ErrorBodies ==
    { <<>>,
      <<"Rate limit exceeded">>,
      <<"upstream", "JSON.parse", "failure">>,
      <<"missing", "environment variable", "upstream">>,
      <<"invalid credentials:", "Bearer", "sk-or-v1-0f3a">>,
      <<"environment variable", "Bearer", "sk-or-v1-0f3a", "rejected">> }

\* what the text-generation endpoint may answer
BadgeResponses ==
    { MkResponse(st, b, "error", <<>>, JsUndefined) : st \in {429, 500}, b \in ErrorBodies }
    \cup
    { MkResponse(200, <<>>, sh, <<>>, JsUndefined) :
        sh \in {"notjson", "nullbody", "nochoices", "nullcontent"} }
    \cup
    { MkResponse(200, <<>>, "content", c, JsUndefined) : c \in Contents }

\* !parsedData.characterName || !parsedData.anime || !parsedData.reason
\*     || !parsedData.badgeColor
MissingRequiredButColor(ms) ==
    \E i \in 1..3 : ~Truthy(Property(ms, BadgeFields[i]))

MissingRequired(ms) ==
    \E i \in 1..Len(BadgeFields) : ~Truthy(Property(ms, BadgeFields[i]))

\* how a step of a call ends: it returns, or an error is thrown inside the try
\* block; cause names the statement that threw, pin the text given to JSON.parse
Returned(members, url, pin) ==
    [kind |-> "returned", members |-> members, url |-> url, thrown |-> NoError,
     cause |-> "none", pin |-> pin]

Thrown(error, cause, pin) ==
    [kind |-> "threw", members |-> <<>>, url |-> JsUndefined, thrown |-> error,
     cause |-> cause, pin |-> pin]

NoInput == [given |-> FALSE, text |-> <<>>]

Input(text) == [given |-> TRUE, text |-> text]

NullTypeError == MkError("TypeError", <<"Cannot read properties of null">>)

\* getAnimeBadge from the reading of the response body to the end of the try
\* block; w is the wording of the engine's JSON.parse errors
BadgeBody(r, w) ==
    IF ~Ok(r)
    THEN Thrown(MkError("Error", OpenRouterHttpMsg(r)), "http", NoInput)
    ELSE CASE r.shape = "notjson" ->
                Thrown(MkError("SyntaxError", SyntaxErrorMessage(w, <<Word("<html>")>>)),
                       "bodyparse", NoInput)
           [] r.shape = "nullbody" -> Thrown(NullTypeError, "typeerror", NoInput)
           [] r.shape = "nochoices" ->
                Thrown(MkError("Error", InvalidStructureMsg), "structure", NoInput)
           [] r.shape = "nullcontent" -> Thrown(NullTypeError, "typeerror", NoInput)
           [] OTHER ->
                LET jsonStr == UnwrapFence(Trim(r.content))
                    parsed == ParseJSON(jsonStr)
                IN  IF ~parsed.ok
                    THEN Thrown(MkError("SyntaxError", SyntaxErrorMessage(w, jsonStr)),
                                "parse", Input(jsonStr))
                    ELSE IF parsed.kind = "null"
                    THEN Thrown(NullTypeError, "typeerror", Input(jsonStr))
                    ELSE IF MissingRequired(parsed.members)
                    THEN Thrown(MkError("Error", MissingFieldsMsg), "missing", Input(jsonStr))
                    ELSE Returned(parsed.members, JsUndefined, Input(jsonStr))

\* ------------------------------------------------------------------- state

VARIABLES
    pc,          \* "idle", "fetching" (awaiting fetch), "reading" (awaiting the body), "done"
    op,          \* the operation called: "getAnimeBadge", "generateAvatar", "lookupAvatar"
    profile,     \* the argument of getAnimeBadge
    badge,       \* the argument of generateAvatar
    keySet,      \* whether the API key the call reads is set in the environment
    timer,       \* the abort timer: "unset", "armed", "cleared", "fired", and its delay
    aborted,     \* controller.signal.aborted
    requests,    \* the endpoints of the requests issued, in order
    resp,        \* the response received
    parserInput, \* the text handed to JSON.parse
    engine,      \* the wording of the JSON.parse error raised, "none" if none was
    cause,       \* the statement that threw, "none" if none did
    result,      \* "none", "returned" or "threw"
    retBadge,    \* the members of the badge returned
    retUrl,      \* the value generateAvatar returned
    err,         \* the error the call failed with
    username,    \* the argument of getUserProfileData
    userFetch,   \* the user read: "none", "pending", "resolved", "rejected", and its response
    reposFetch,  \* the repository read, likewise
    retProfile,  \* the profile that getUserProfileData returned
    env,         \* process.env: the names of the keys that are set
    loaded,      \* the module githubService.ts: "loaded", or "failed" when loading it threw
    thrown,      \* the value thrown before the catch handler, NoError if none
    log,         \* the texts written to the console
    fn,          \* the function applied on its own: "none", "unwrap" or "prompt"
    fnPc,        \* "none", "input" (given its argument) or "applied"
    fnText,      \* the text given to the fence removal
    fnOnce,      \* the fence removal applied to fnText
    fnTwice,     \* the fence removal applied to fnOnce
    fnProfile,   \* the profile given to the prompt builder
    fnSummary,   \* the summary that the prompt builder made of fnProfile
    usernameInput, \* the text of the search form
    ui,          \* the state of App: userProfile, badgeInfo, avatarUrl, error, isLoading,
                 \* isGeneratingAvatar; each value with the search that wrote it
    searches,    \* the invocations of handleSearch: the stage each awaits, and its username
    latest       \* the number of the search started last, 0 before the first

\* the state of the page
appVars == <<usernameInput, ui, searches, latest>>

\* the state of a function applied on its own
fnVars == <<fn, fnPc, fnText, fnOnce, fnTwice, fnProfile, fnSummary>>

\* the state of a call of getUserProfileData
githubVars == <<username, userFetch, reposFetch, retProfile>>

vars == <<pc, op, profile, badge, keySet, timer, aborted, requests, resp,
          parserInput, engine, cause, result, retBadge, retUrl, err, githubVars,
          env, loaded, thrown, log, fnVars, appVars>>

\* a read that has not been issued
NoFetch == [state |-> "none", resp |-> NoResponse]

\* no profile has been returned
NoRetProfile == [present |-> FALSE, user |-> "", repos |-> ""]

NoTimer == [state |-> "unset", delay |-> 0]

\* the keys that the services read from process.env
KeyNames == {"OPENROUTER_API_KEY", "IMAGEROUTER_API_KEY", "API_KEY"}

\* the environments: any of the keys may be set
Envs == SUBSET KeyNames

\* the value of a key that is set
KeyValue(name) ==
    CASE name = "OPENROUTER_API_KEY" -> "sk-or-v1-0f3a"
      [] name = "IMAGEROUTER_API_KEY" -> "ir-7c21"
      [] name = "API_KEY" -> "AIza-55e9"

\* the evaluation of the module githubService.ts at start-up, in the
\* environment e: if (!process.env.API_KEY) throw new Error(...)
LoadGithubService(e) == IF "API_KEY" \in e THEN "loaded" ELSE "failed"

\* console.log("OPENROUTER_API_KEY", process.env)
EnvLogged == {"OPENROUTER_API_KEY"} \cup { KeyValue(n) : n \in env }

\* error.name || 'Unknown error', as the catch handlers log it; reading the
\* name of undefined throws before anything is logged
CatchLogName(e) ==
    IF e.nullish THEN {}
    ELSE IF e.name = "undefined" THEN {"Unknown error"}
    ELSE {e.name}

\* what the catch handler of getAnimeBadge or generateAvatar has logged at the
\* end of a step: the name of the error caught in the try block
CatchLogged ==
    IF pc' = "done" /\ result' = "threw" /\ cause' # "invalidInput"
    THEN CatchLogName(thrown')
    ELSE {}

\* console.error("Error getting character avatar:", error.message)
LookupLogged ==
    IF pc' = "done" /\ thrown' # NoError /\ cause' # "invalidInput" /\ ~thrown'.nullish
    THEN {"Error getting character avatar:"} \cup Range(thrown'.msg)
    ELSE {}

\* no function is applied on its own
FnIdle ==
    /\ fn = "none"
    /\ fnPc = "none"
    /\ fnText = <<>>
    /\ fnOnce = <<>>
    /\ fnTwice = <<>>
    /\ fnProfile = NoProfile
    /\ fnSummary = GenerateUserPrompt(NoProfile)

\* a value of the state of App that is null
Unset == [set |-> FALSE, by |-> 0, text |-> ""]

\* a value written by the search s (by 0: written by no search)
SetBy(s, text) == [set |-> TRUE, by |-> s, text |-> text]

SearchIds == 1..MaxSearches

\* the state of App as its useState calls give it
AppInit ==
    /\ usernameInput = "torvalds"
    /\ ui = [userProfile |-> Unset, badgeInfo |-> Unset, avatarUrl |-> Unset,
             error |-> Unset, isLoading |-> FALSE, isGeneratingAvatar |-> FALSE]
    /\ searches = [s \in SearchIds |-> [stage |-> "idle", username |-> ""]]
    /\ latest = 0

ServiceInit ==
    /\ pc = "idle"
    /\ op = "none"
    /\ profile = NoProfile
    /\ badge = NoBadge
    /\ keySet = FALSE
    /\ timer = NoTimer
    /\ aborted = FALSE
    /\ requests = <<>>
    /\ resp = NoResponse
    /\ parserInput = NoInput
    /\ engine = "none"
    /\ cause = "none"
    /\ result = "none"
    /\ retBadge = <<>>
    /\ retUrl = JsUndefined
    /\ err = NoError
    /\ username = ""
    /\ userFetch = NoFetch
    /\ reposFetch = NoFetch
    /\ retProfile = NoRetProfile
    /\ env \in Envs
    /\ loaded = LoadGithubService(env)
    /\ thrown = NoError
    /\ log = {}

Init == ServiceInit /\ FnIdle /\ AppInit

\* the call settles: it returns, or it fails with the error its handler gives
Settle(out, handled) ==
    /\ pc' = "done"
    /\ cause' = out.cause
    /\ parserInput' = out.pin
    /\ result' = out.kind
    /\ retBadge' = out.members
    /\ retUrl' = out.url
    /\ err' = IF out.kind = "threw" THEN handled ELSE NoError
    /\ thrown' = out.thrown

\* clearTimeout(timeoutId)
ClearTimeout == timer' = IF timer.state = "armed" THEN [timer EXCEPT !.state = "cleared"] ELSE timer

\* ----------------------------------------------------------- getAnimeBadge

\* the call of getAnimeBadge(p), up to its first await
CallGetAnimeBadge ==
    /\ pc = "idle"
    /\ op' = "getAnimeBadge"
    /\ UNCHANGED <<badge, aborted, resp, engine>>
    /\ \E p \in Profiles :
       /\ profile' = p
       /\ IF ~ValidProfile(p)
          THEN /\ Settle(Thrown(MkError("Error", InvalidProfileMsg), "invalidInput", NoInput),
                         MkError("Error", InvalidProfileMsg))
               /\ UNCHANGED <<keySet, timer, requests>>
          ELSE /\ timer' = [state |-> "armed", delay |-> REQUEST_TIMEOUT]
               /\ keySet' = ("OPENROUTER_API_KEY" \in env)
               /\ IF "OPENROUTER_API_KEY" \notin env
                  THEN /\ Settle(Thrown(MkError("Error", OpenRouterKeyMsg), "config", NoInput),
                                 BadgeCatch(MkError("Error", OpenRouterKeyMsg)))
                       /\ UNCHANGED requests
                  ELSE /\ requests' = Append(requests, "openrouter")
                       /\ pc' = "fetching"
                       /\ UNCHANGED <<parserInput, cause, result, retBadge, retUrl, err, thrown>>
    /\ UNCHANGED <<githubVars, env, loaded>>
    /\ log' = log \cup (IF cause' = "invalidInput" THEN {}
                     ELSE {"OpenRouter request:"} \cup EnvLogged)
                    \cup CatchLogged
    /\ UNCHANGED <<fnVars, appVars>>

\* fetch resolves with the response r: the timer is cleared and the body is awaited
BadgeFetchResolves ==
    /\ pc = "fetching"
    /\ op = "getAnimeBadge"
    /\ ~aborted
    /\ ClearTimeout
    /\ \E r \in BadgeResponses : resp' = r
    /\ pc' = "reading"
    /\ UNCHANGED <<op, profile, badge, keySet, aborted, requests, parserInput, engine,
                   cause, result, retBadge, retUrl, err, thrown>>
    /\ UNCHANGED <<githubVars, env, loaded>>
    /\ log' = log \cup {}
    /\ UNCHANGED <<fnVars, appVars>>

\* response.text() or response.json() resolves, and the call runs to its end
BadgeBodyRead ==
    /\ pc = "reading"
    /\ op = "getAnimeBadge"
    /\ \E w \in ParserWordings :
         LET out == BadgeBody(resp, w)
         IN  /\ Settle(out, BadgeCatch(out.thrown))
             /\ engine' = IF out.cause \in {"parse", "bodyparse"} THEN w ELSE "none"
    /\ UNCHANGED <<op, profile, badge, keySet, timer, aborted, requests, resp>>
    /\ UNCHANGED <<githubVars, env, loaded>>
    /\ log' = log \cup (IF ~Ok(resp)
                     THEN {"OpenRouter API error details:"} \cup Range(resp.body)
                     ELSE {})
                    \cup CatchLogged
    /\ UNCHANGED <<fnVars, appVars>>

\* fetch, or the reading of the body, rejects with e
BadgeRejectsRetrying ==
    /\ pc \in {"fetching", "reading"}
    /\ op = "getAnimeBadge"
    /\ ~aborted
    /\ \E e \in NetworkErrors : Settle(Thrown(e, "network", NoInput), BadgeCatch(e))
    /\ requests' = Append(requests, "openrouter")
    /\ UNCHANGED <<op, profile, badge, keySet, timer, aborted, resp, engine>>
    /\ UNCHANGED <<githubVars, env, loaded>>
    /\ log' = log \cup CatchLogged
    /\ UNCHANGED <<fnVars, appVars>>

BadgeRejects ==
    /\ pc \in {"fetching", "reading"}
    /\ op = "getAnimeBadge"
    /\ ~aborted
    /\ \E e \in NetworkErrors : Settle(Thrown(e, "network", NoInput), BadgeCatch(e))
    /\ UNCHANGED <<op, profile, badge, keySet, timer, aborted, requests, resp, engine>>
    /\ UNCHANGED <<githubVars, env, loaded>>
    /\ log' = log \cup CatchLogged
    /\ UNCHANGED <<fnVars, appVars>>

\* ------------------------------------------- generateAvatar (generative)

\* !badge?.characterName || !badge?.anime || !badge?.badgeColor, negated
ValidBadge(b) ==
    b.present /\ Truthy(b.characterName) /\ Truthy(b.anime) /\ Truthy(b.badgeColor)

\* what the image-generation endpoint may answer
ImageResponses ==
    { MkResponse(st, <<>>, "error", <<>>, JsUndefined) : st \in {429, 500} }
    \cup
    { MkResponse(200, <<>>, sh, <<>>, JsUndefined) :
        sh \in {"notjson", "nullbody", "noimage"} }
    \cup
    { MkResponse(200, <<>>, "image", <<>>, x) :
        x \in {JsUndefined, JsStr(<<>>), JsStr(<<"iVBORw0KGgo">>), JsStr(<<"/9j/4AAQ", "SkZJRg==">>)} }

\* `data:image/jpeg;base64,${data.image.base64}`
DataUrlPng(base64) == JsStr(<<"data:image/png;base64,">> \o base64.v)

DataUrl(base64) == JsStr(<<"data:image/jpeg;base64,">> \o base64.v)

\* generateAvatar from the reading of the response body to the end of the try block
AvatarBody(r, w) ==
    CASE r.shape = "notjson" ->
            Thrown(MkError("SyntaxError", SyntaxErrorMessage(w, <<Word("<html>")>>)),
                   "bodyparse", NoInput)
      [] r.shape = "nullbody" -> Thrown(NullTypeError, "typeerror", NoInput)
      [] r.shape = "noimage" -> Thrown(MkError("Error", NoImageMsg), "noimage", NoInput)
      [] OTHER ->
            IF ~Truthy(r.value)
            THEN Thrown(MkError("Error", NoImageMsg), "noimage", NoInput)
            ELSE Returned(<<>>, DataUrl(r.value), NoInput)

\* the call of generateAvatar(b), up to its first await
CallGenerateAvatar ==
    /\ pc = "idle"
    /\ op' = "generateAvatar"
    /\ UNCHANGED <<profile, aborted, resp, engine>>
    /\ \E b \in Badges :
       /\ badge' = b
       /\ IF ~ValidBadge(b)
          THEN /\ Settle(Thrown(MkError("Error", InvalidBadgeMsg), "invalidInput", NoInput),
                         MkError("Error", InvalidBadgeMsg))
               /\ UNCHANGED <<keySet, timer, requests>>
          ELSE /\ timer' = [state |-> "armed", delay |-> REQUEST_TIMEOUT]
               /\ keySet' = ("IMAGEROUTER_API_KEY" \in env)
               /\ IF "IMAGEROUTER_API_KEY" \notin env
                  THEN /\ Settle(Thrown(MkError("Error", ImageRouterKeyMsg), "config", NoInput),
                                 AvatarCatch(MkError("Error", ImageRouterKeyMsg)))
                       /\ UNCHANGED requests
                  ELSE /\ requests' = Append(requests, "imagerouter")
                       /\ pc' = "fetching"
                       /\ UNCHANGED <<parserInput, cause, result, retBadge, retUrl, err, thrown>>
    /\ UNCHANGED <<githubVars, env, loaded>>
    /\ log' = log \cup CatchLogged
    /\ UNCHANGED <<fnVars, appVars>>

\* fetch resolves with the response r: the timer is cleared; a non-success
\* status fails the call, otherwise the body is awaited
AvatarFetchResolves ==
    /\ pc = "fetching"
    /\ op = "generateAvatar"
    /\ ~aborted
    /\ ClearTimeout
    /\ \E r \in ImageResponses :
       /\ resp' = r
       /\ IF ~Ok(r)
          THEN Settle(Thrown(MkError("Error", ImageRouterHttpMsg(r)), "http", NoInput),
                      AvatarCatch(MkError("Error", ImageRouterHttpMsg(r))))
          ELSE /\ pc' = "reading"
               /\ UNCHANGED <<parserInput, cause, result, retBadge, retUrl, err, thrown>>
    /\ UNCHANGED <<op, profile, badge, keySet, aborted, requests, engine>>
    /\ UNCHANGED <<githubVars, env, loaded>>
    /\ log' = log \cup CatchLogged
    /\ UNCHANGED <<fnVars, appVars>>

\* response.json() resolves, and the call runs to its end
AvatarBodyRead ==
    /\ pc = "reading"
    /\ op = "generateAvatar"
    /\ \E w \in ParserWordings :
         LET out == AvatarBody(resp, w)
         IN  /\ Settle(out, AvatarCatch(out.thrown))
             /\ engine' = IF out.cause = "bodyparse" THEN w ELSE "none"
    /\ UNCHANGED <<op, profile, badge, keySet, timer, aborted, requests, resp>>
    /\ UNCHANGED <<githubVars, env, loaded>>
    /\ log' = log \cup CatchLogged
    /\ UNCHANGED <<fnVars, appVars>>

\* fetch, or the reading of the body, rejects
AvatarRejects ==
    /\ pc \in {"fetching", "reading"}
    /\ op = "generateAvatar"
    /\ ~aborted
    /\ \E e \in NetworkErrors : Settle(Thrown(e, "network", NoInput), AvatarCatch(e))
    /\ UNCHANGED <<op, profile, badge, keySet, timer, aborted, requests, resp, engine>>
    /\ UNCHANGED <<githubVars, env, loaded>>
    /\ log' = log \cup CatchLogged
    /\ UNCHANGED <<fnVars, appVars>>

\* ------------------------------------------------ generateAvatar (lookup)

\* const characterImages: Record<string, string>
CharacterImages ==
    [n \in {"Naruto", "Sasuke", "Kakashi", "Sakura", "Itachi", "Gaara", "Rock Lee", "Neji",
            "Shikamaru", "Hinata", "Tanjiro", "Nezuko", "Zenitsu", "Inosuke", "Giyu",
            "Rengoku", "Shinobu", "Mitsuri", "Obanai", "Tengen"} |->
        CASE n = "Naruto" -> "https://cdn.myanimelist.net/images/characters/2/284121.jpg"
          [] n = "Sasuke" -> "https://cdn.myanimelist.net/images/characters/9/131317.jpg"
          [] n = "Kakashi" -> "https://cdn.myanimelist.net/images/characters/7/284129.jpg"
          [] n = "Sakura" -> "https://cdn.myanimelist.net/images/characters/9/69275.jpg"
          [] n = "Itachi" -> "https://cdn.myanimelist.net/images/characters/9/284167.jpg"
          [] n = "Gaara" -> "https://cdn.myanimelist.net/images/characters/8/284139.jpg"
          [] n = "Rock Lee" -> "https://cdn.myanimelist.net/images/characters/11/253723.jpg"
          [] n = "Neji" -> "https://cdn.myanimelist.net/images/characters/2/284133.jpg"
          [] n = "Shikamaru" -> "https://cdn.myanimelist.net/images/characters/3/284135.jpg"
          [] n = "Hinata" -> "https://cdn.myanimelist.net/images/characters/5/284137.jpg"
          [] n = "Tanjiro" -> "https://cdn.myanimelist.net/images/characters/15/271763.jpg"
          [] n = "Nezuko" -> "https://cdn.myanimelist.net/images/characters/3/271765.jpg"
          [] n = "Zenitsu" -> "https://cdn.myanimelist.net/images/characters/7/271767.jpg"
          [] n = "Inosuke" -> "https://cdn.myanimelist.net/images/characters/9/271769.jpg"
          [] n = "Giyu" -> "https://cdn.myanimelist.net/images/characters/11/271771.jpg"
          [] n = "Rengoku" -> "https://cdn.myanimelist.net/images/characters/13/271773.jpg"
          [] n = "Shinobu" -> "https://cdn.myanimelist.net/images/characters/5/271775.jpg"
          [] n = "Mitsuri" -> "https://cdn.myanimelist.net/images/characters/7/271777.jpg"
          [] n = "Obanai" -> "https://cdn.myanimelist.net/images/characters/9/271779.jpg"
          [] n = "Tengen" -> "https://cdn.myanimelist.net/images/characters/11/271781.jpg"]

\* the string a one-chunk JavaScript string stands for
KeyOf(x) == IF x.t = "string" /\ Len(x.v) = 1 THEN x.v[1] ELSE ""

\* properties that every object literal inherits from Object.prototype
InheritedKeys == {"constructor", "toString", "valueOf", "hasOwnProperty"}

\* characterImages[badge.characterName]
CharacterImage(name) ==
    IF KeyOf(name) \in DOMAIN CharacterImages THEN JsStr(<<CharacterImages[KeyOf(name)]>>)
    ELSE IF KeyOf(name) \in InheritedKeys THEN JsFunction
    ELSE JsUndefined

\* fallbackImages[badge.anime] || fallbackImages['Naruto']
FallbackImage(anime) ==
    IF KeyOf(anime) = "Demon Slayer"
    THEN JsStr(<<"https://cdn.myanimelist.net/images/characters/15/271763.jpg">>)
    ELSE IF KeyOf(anime) \in InheritedKeys THEN JsFunction
    ELSE JsStr(<<"https://cdn.myanimelist.net/images/characters/2/284121.jpg">>)

\* what the catch handler returns
DefaultImage == JsStr(<<"https://cdn.myanimelist.net/images/characters/2/284121.jpg">>)

\* !badge?.characterName || !badge?.anime, negated
ValidLookupBadge(b) == b.present /\ Truthy(b.characterName) /\ Truthy(b.anime)

\* what the character-search endpoint may answer
SearchResponses ==
    { MkResponse(st, <<>>, "error", <<>>, JsUndefined) : st \in {404, 429, 500} }
    \cup
    { MkResponse(200, <<>>, sh, <<>>, JsUndefined) :
        sh \in {"notjson", "nullbody", "nodata", "empty", "nullitem", "noimages"} }
    \cup
    { MkResponse(200, <<>>, "url", <<>>, x) :
        x \in { JsStr(<<"https://cdn.myanimelist.net/images/characters/6/found.jpg">>),
                JsStr(<<>>), JsNum(<<"5">>) } }

\* the lookup's catch handler, for a value thrown inside its try block:
\* console.error(..., error.message) and the default image
LookupCatch(error, why) ==
    IF error.nullish
    THEN Thrown(HandlerTypeError, why, NoInput)
    ELSE [Returned(<<>>, DefaultImage, NoInput) EXCEPT !.cause = why, !.thrown = error]

\* the lookup from the reading of the response body to its end
LookupBody(r, b) ==
    CASE r.shape = "notjson" -> LookupCatch(MkError("SyntaxError", <<>>), "bodyparse")
      [] r.shape \in {"nullbody", "nullitem"} -> LookupCatch(NullTypeError, "typeerror")
      [] r.shape \in {"nodata", "empty", "noimages"} ->
            Returned(<<>>, FallbackImage(b.anime), NoInput)
      [] OTHER ->
            IF Truthy(r.value) THEN Returned(<<>>, r.value, NoInput)
            ELSE Returned(<<>>, FallbackImage(b.anime), NoInput)

\* the call of the lookup generateAvatar(b), up to its first await
CallLookupAvatar ==
    /\ pc = "idle"
    /\ op' = "lookupAvatar"
    /\ UNCHANGED <<profile, keySet, timer, aborted, resp, engine>>
    /\ \E b \in Badges :
       /\ badge' = b
       /\ IF ~ValidLookupBadge(b)
          THEN /\ Settle(Thrown(MkError("Error", InvalidBadgeMsg), "invalidInput", NoInput),
                         MkError("Error", InvalidBadgeMsg))
               /\ UNCHANGED requests
          ELSE IF Truthy(CharacterImage(b.characterName))
          THEN /\ Settle(Returned(<<>>, CharacterImage(b.characterName), NoInput), NoError)
               /\ UNCHANGED requests
          ELSE /\ requests' = Append(requests, "jikan")
               /\ pc' = "fetching"
               /\ UNCHANGED <<parserInput, cause, result, retBadge, retUrl, err, thrown>>
    /\ UNCHANGED <<githubVars, env, loaded>>
    /\ log' = log \cup LookupLogged
    /\ UNCHANGED <<fnVars, appVars>>

\* fetch resolves with the response r: a non-success status is thrown and
\* caught, otherwise the body is awaited
LookupFetchResolves ==
    /\ pc = "fetching"
    /\ op = "lookupAvatar"
    /\ \E r \in SearchResponses :
       /\ resp' = r
       /\ IF ~Ok(r)
          THEN LET out == LookupCatch(MkError("Error", <<"Jikan API error:", ToString(r.status)>>),
                                      "http")
               IN  Settle(out, out.thrown)
          ELSE /\ pc' = "reading"
               /\ UNCHANGED <<parserInput, cause, result, retBadge, retUrl, err, thrown>>
    /\ UNCHANGED <<op, profile, badge, keySet, timer, aborted, requests, engine>>
    /\ UNCHANGED <<githubVars, env, loaded>>
    /\ log' = log \cup LookupLogged
    /\ UNCHANGED <<fnVars, appVars>>

\* response.json() resolves, and the call runs to its end
LookupBodyRead ==
    /\ pc = "reading"
    /\ op = "lookupAvatar"
    /\ LET out == LookupBody(resp, badge) IN Settle(out, out.thrown)
    /\ UNCHANGED <<op, profile, badge, keySet, timer, aborted, requests, resp, engine>>
    /\ UNCHANGED <<githubVars, env, loaded>>
    /\ log' = log \cup LookupLogged
    /\ UNCHANGED <<fnVars, appVars>>

\* fetch, or the reading of the body, rejects
LookupRejects ==
    /\ pc \in {"fetching", "reading"}
    /\ op = "lookupAvatar"
    /\ \E e \in NetworkErrors :
         LET out == LookupCatch(e, "network") IN Settle(out, out.thrown)
    /\ UNCHANGED <<op, profile, badge, keySet, timer, aborted, requests, resp, engine>>
    /\ UNCHANGED <<githubVars, env, loaded>>
    /\ log' = log \cup LookupLogged
    /\ UNCHANGED <<fnVars, appVars>>

\* ------------------------------------------------------ getUserProfileData

\* the usernames the form may hand over: any non-empty text
Usernames == {"octocat", "ghost", "API rate limit exceeded"}

\* error.message.includes('API rate limit exceeded')
RateLimitMarker == "API rate limit exceeded"

RateLimitMsg == <<"GitHub API rate limit exceeded. Please wait and try again later.">>

\* throw new Error(`GitHub user not found: ${username}.`)
UserNotFoundMsg(u) == <<"GitHub user not found:", u, ".">>

\* throw new Error(`Failed to fetch user data. Status: ${userResponse.status}`)
UserStatusMsg(r) == <<"Failed to fetch user data. Status:", ToString(r.status)>>

\* throw new Error(`Failed to fetch repository data. Status: ${reposResponse.status}`)
ReposStatusMsg(r) == <<"Failed to fetch repository data. Status:", ToString(r.status)>>

\* what the profile API may answer to either read; an exhausted quota is a
\* 403 whose body says so
GithubResponses ==
    { MkResponse(st, <<>>, "error", <<>>, JsUndefined) : st \in {403, 404, 500} }
    \cup
    { MkResponse(403, <<RateLimitMarker, "for 203.0.113.7.">>, "error", <<>>, JsUndefined) }
    \cup
    { MkResponse(200, <<>>, sh, <<>>, JsUndefined) : sh \in {"json", "notjson"} }

\* the checks of the two responses after Promise.all: the error thrown, or
\* NoError
ProfileChecksUserOnly(u, ur, rr) ==
    IF ~Ok(ur)
    THEN IF ur.status = 404
         THEN MkError("Error", UserNotFoundMsg(u))
         ELSE MkError("Error", UserStatusMsg(ur))
    ELSE NoError

ProfileChecks(u, ur, rr) ==
    IF ~Ok(ur)
    THEN IF ur.status = 404
         THEN MkError("Error", UserNotFoundMsg(u))
         ELSE MkError("Error", UserStatusMsg(ur))
    ELSE IF ~Ok(rr)
    THEN MkError("Error", ReposStatusMsg(rr))
    ELSE NoError

\* the catch handler of getUserProfileData: the error the call fails with
ProfileCatch(error) ==
    IF error.nullish \/ ~error.hasMsg THEN HandlerTypeError
    ELSE IF Includes(error.msg, RateLimitMarker) THEN MkError("Error", RateLimitMsg)
    ELSE error

\* the call fails with what its catch handler makes of the error e
ProfileFails(e, why) ==
    /\ Settle(Thrown(e, why, NoInput), ProfileCatch(e))
    /\ retProfile' = NoRetProfile

\* Promise.all has resolved with the responses ur and rr
ProfileAfterAll(ur, rr) ==
    IF ProfileChecks(username, ur, rr) # NoError
    THEN ProfileFails(ProfileChecks(username, ur, rr), "http")
    ELSE /\ pc' = "reading"
         /\ UNCHANGED <<parserInput, cause, result, retBadge, retUrl, err, thrown, retProfile>>

\* the call of getUserProfileData(u): both reads are issued, then awaited
CallGetUserProfileData ==
    /\ pc = "idle"
    /\ loaded = "loaded"
    /\ op' = "getUserProfileData"
    /\ \E u \in Usernames : username' = u
    /\ requests' = requests \o <<"github-user", "github-repos">>
    /\ userFetch' = [state |-> "pending", resp |-> NoResponse]
    /\ reposFetch' = [state |-> "pending", resp |-> NoResponse]
    /\ pc' = "fetching"
    /\ UNCHANGED <<profile, badge, keySet, timer, aborted, resp, parserInput, engine,
                   cause, result, retBadge, retUrl, err, thrown, retProfile>>
    /\ UNCHANGED <<env, loaded, log>>
    /\ UNCHANGED <<fnVars, appVars>>

\* the user read resolves; when it is the last of the two, Promise.all resolves
ProfileUserResolves ==
    /\ op = "getUserProfileData"
    /\ userFetch.state = "pending"
    /\ \E r \in GithubResponses :
       /\ userFetch' = [state |-> "resolved", resp |-> r]
       /\ IF pc = "fetching" /\ reposFetch.state = "resolved"
          THEN ProfileAfterAll(r, reposFetch.resp)
          ELSE UNCHANGED <<pc, parserInput, cause, result, retBadge, retUrl, err, thrown, retProfile>>
    /\ UNCHANGED <<op, profile, badge, keySet, timer, aborted, requests, resp, engine,
                   username, reposFetch>>
    /\ UNCHANGED <<env, loaded, log>>
    /\ UNCHANGED <<fnVars, appVars>>

\* the repository read resolves; when it is the last of the two, Promise.all resolves
ProfileReposResolves ==
    /\ op = "getUserProfileData"
    /\ reposFetch.state = "pending"
    /\ \E r \in GithubResponses :
       /\ reposFetch' = [state |-> "resolved", resp |-> r]
       /\ IF pc = "fetching" /\ userFetch.state = "resolved"
          THEN ProfileAfterAll(userFetch.resp, r)
          ELSE UNCHANGED <<pc, parserInput, cause, result, retBadge, retUrl, err, thrown, retProfile>>
    /\ UNCHANGED <<op, profile, badge, keySet, timer, aborted, requests, resp, engine,
                   username, userFetch>>
    /\ UNCHANGED <<env, loaded, log>>
    /\ UNCHANGED <<fnVars, appVars>>

\* the user read rejects: Promise.all rejects with the first rejection
ProfileUserRejects ==
    /\ op = "getUserProfileData"
    /\ userFetch.state = "pending"
    /\ \E e \in NetworkErrors :
       /\ userFetch' = [state |-> "rejected", resp |-> NoResponse]
       /\ IF pc = "fetching"
          THEN ProfileFails(e, "network")
          ELSE UNCHANGED <<pc, parserInput, cause, result, retBadge, retUrl, err, thrown, retProfile>>
    /\ UNCHANGED <<op, profile, badge, keySet, timer, aborted, requests, resp, engine,
                   username, reposFetch>>
    /\ UNCHANGED <<env, loaded, log>>
    /\ UNCHANGED <<fnVars, appVars>>

\* the repository read rejects: Promise.all rejects with the first rejection
ProfileReposRejects ==
    /\ op = "getUserProfileData"
    /\ reposFetch.state = "pending"
    /\ \E e \in NetworkErrors :
       /\ reposFetch' = [state |-> "rejected", resp |-> NoResponse]
       /\ IF pc = "fetching"
          THEN ProfileFails(e, "network")
          ELSE UNCHANGED <<pc, parserInput, cause, result, retBadge, retUrl, err, thrown, retProfile>>
    /\ UNCHANGED <<op, profile, badge, keySet, timer, aborted, requests, resp, engine,
                   username, userFetch>>
    /\ UNCHANGED <<env, loaded, log>>
    /\ UNCHANGED <<fnVars, appVars>>

\* userResponse.json() resolves or throws a SyntaxError
ProfileUserBodyRead ==
    /\ op = "getUserProfileData"
    /\ pc = "reading"
    /\ IF userFetch.resp.shape = "notjson"
       THEN \E w \in ParserWordings :
              /\ ProfileFails(MkError("SyntaxError", SyntaxErrorMessage(w, <<Word("<html>")>>)),
                              "bodyparse")
              /\ engine' = w
       ELSE /\ pc' = "readingRepos"
            /\ UNCHANGED <<parserInput, engine, cause, result, retBadge, retUrl, err, thrown, retProfile>>
    /\ UNCHANGED <<op, profile, badge, keySet, timer, aborted, requests, resp,
                   username, userFetch, reposFetch>>
    /\ UNCHANGED <<env, loaded, log>>
    /\ UNCHANGED <<fnVars, appVars>>

\* reposResponse.json() resolves or throws a SyntaxError; the profile is returned
ProfileReposBodyRead ==
    /\ op = "getUserProfileData"
    /\ pc = "readingRepos"
    /\ IF reposFetch.resp.shape = "notjson"
       THEN \E w \in ParserWordings :
              /\ ProfileFails(MkError("SyntaxError", SyntaxErrorMessage(w, <<Word("<html>")>>)),
                              "bodyparse")
              /\ engine' = w
       ELSE /\ Settle(Returned(<<>>, JsUndefined, NoInput), NoError)
            /\ retProfile' = [present |-> TRUE, user |-> username, repos |-> "top10"]
            /\ UNCHANGED engine
    /\ UNCHANGED <<op, profile, badge, keySet, timer, aborted, requests, resp,
                   username, userFetch, reposFetch>>
    /\ UNCHANGED <<env, loaded, log>>
    /\ UNCHANGED <<fnVars, appVars>>

\* the reading of either body rejects
ProfileBodyRejects ==
    /\ op = "getUserProfileData"
    /\ pc \in {"reading", "readingRepos"}
    /\ \E e \in NetworkErrors : ProfileFails(e, "network")
    /\ UNCHANGED <<op, profile, badge, keySet, timer, aborted, requests, resp, engine,
                   username, userFetch, reposFetch>>
    /\ UNCHANGED <<env, loaded, log>>
    /\ UNCHANGED <<fnVars, appVars>>

\* ------------------------------------------------------------------ timer

\* the timer's callback: controller.abort()
TimerFires ==
    /\ timer.state = "armed"
    /\ timer' = [timer EXCEPT !.state = "fired"]
    /\ aborted' = TRUE
    /\ UNCHANGED <<pc, op, profile, badge, keySet, requests, resp, parserInput, engine,
                   cause, result, retBadge, retUrl, err, thrown>>
    /\ UNCHANGED <<githubVars, env, loaded, log>>
    /\ UNCHANGED <<fnVars, appVars>>

\* the aborted fetch rejects with an AbortError
FetchAborts ==
    /\ pc = "fetching"
    /\ aborted
    /\ Settle(Thrown(AbortError, "abort", NoInput),
              IF op = "getAnimeBadge" THEN BadgeCatch(AbortError) ELSE AvatarCatch(AbortError))
    /\ UNCHANGED <<op, profile, badge, keySet, timer, aborted, requests, resp, engine>>
    /\ UNCHANGED <<githubVars, env, loaded>>
    /\ log' = log \cup CatchLogged
    /\ UNCHANGED <<fnVars, appVars>>

Next ==
    \/ CallGetAnimeBadge
    \/ BadgeFetchResolves
    \/ BadgeBodyRead
    \/ BadgeRejects
    \/ CallGenerateAvatar
    \/ AvatarFetchResolves
    \/ AvatarBodyRead
    \/ AvatarRejects
    \/ CallLookupAvatar
    \/ LookupFetchResolves
    \/ LookupBodyRead
    \/ LookupRejects
    \/ TimerFires
    \/ FetchAborts
    \/ CallGetUserProfileData
    \/ ProfileUserResolves
    \/ ProfileReposResolves
    \/ ProfileUserRejects
    \/ ProfileReposRejects
    \/ ProfileUserBodyRead
    \/ ProfileReposBodyRead
    \/ ProfileBodyRejects

Spec == Init /\ [][Next]_vars

\* ------------------------------------------ functions applied on their own

\* the texts given to the fence removal: the contents a model may answer, and
\* those contents inside one more fence
UnwrapTexts ==
    Contents \cup { Fenced(lang, c) : lang \in BOOLEAN, c \in FencedContents }

\* the variables of the services, which no function applied on its own touches
serviceVars ==
    <<pc, op, profile, badge, keySet, timer, aborted, requests, resp, parserInput, engine,
      cause, result, retBadge, retUrl, err, githubVars, env, loaded, thrown, log>>

\* the argument is given: a text to the fence removal, or a profile to the
\* prompt builder
FnInit ==
    /\ ServiceInit
    /\ AppInit
    /\ env = KeyNames
    /\ fnPc = "input"
    /\ fnOnce = <<>>
    /\ fnTwice = <<>>
    /\ fnSummary = GenerateUserPrompt(NoProfile)
    /\ \/ fn = "unwrap" /\ fnText \in UnwrapTexts /\ fnProfile = NoProfile
       \/ fn = "prompt" /\ fnText = <<>> /\ fnProfile \in PromptProfiles

\* the fence removal of getAnimeBadge, applied to the text and then to its
\* own output
ApplyUnwrap ==
    /\ fn = "unwrap"
    /\ fnPc = "input"
    /\ fnOnce' = UnwrapFence(fnText)
    /\ fnTwice' = UnwrapFence(UnwrapFence(fnText))
    /\ fnPc' = "applied"
    /\ UNCHANGED <<serviceVars, appVars, fn, fnText, fnProfile, fnSummary>>

\* generateUserPrompt, applied to the profile
BuildPrompt ==
    /\ fn = "prompt"
    /\ fnPc = "input"
    /\ fnSummary' = GenerateUserPrompt(fnProfile)
    /\ fnPc' = "applied"
    /\ UNCHANGED <<serviceVars, appVars, fn, fnText, fnOnce, fnTwice, fnProfile>>

FnNext == ApplyUnwrap \/ BuildPrompt

FnSpec == FnInit /\ [][FnNext]_vars

\* ---------------------------------------------------------------- the page

\* the texts that may be typed into the form
AppUsernames == {"", "torvalds", "gaearon"}

\* the messages of the errors that a stage may fail with
StageErrors == {"GitHub user not found: gaearon.", ""}

\* setUsernameInput(e.target.value); the input is disabled while isLoading
TypeUsername ==
    /\ ~ui.isLoading
    /\ \E u \in AppUsernames \ {usernameInput} : usernameInput' = u
    /\ UNCHANGED <<serviceVars, fnVars, ui, searches, latest>>

\* SearchForm.handleSubmit: if (!isLoading) onSubmit()
FormAcceptsAlways == TRUE

FormAccepts == ~ui.isLoading

\* the form is submitted and handleSearch runs up to its first await: an
\* empty username sets the error; otherwise the state is reset and
\* getUserProfileData is called
Submit ==
    /\ FormAccepts
    /\ IF usernameInput = ""
       THEN /\ ui' = [ui EXCEPT !.error = SetBy(0, "Please enter a GitHub username.")]
            /\ UNCHANGED <<searches, latest>>
       ELSE /\ latest < MaxSearches
            /\ latest' = latest + 1
            /\ searches' = [searches EXCEPT ![latest + 1] =
                                [stage |-> "profile", username |-> usernameInput]]
            /\ ui' = [userProfile |-> Unset, badgeInfo |-> Unset, avatarUrl |-> Unset,
                      error |-> Unset, isLoading |-> TRUE, isGeneratingAvatar |-> FALSE]
    /\ UNCHANGED <<serviceVars, fnVars, usernameInput>>

\* err.message || 'An unknown error occurred.'
ErrorTextRaw(message) == message

ErrorText(message) == IF message = "" THEN "An unknown error occurred." ELSE message

\* the value that setError is given: null is not set, and neither is ""
ErrorValue(s, text) == IF text = "" THEN Unset ELSE SetBy(s, text)

\* the catch and finally blocks of handleSearch, for the search s
Fails(s, message) ==
    /\ ui' = [ui EXCEPT !.error = ErrorValue(s, ErrorText(message)),
                        !.isLoading = FALSE,
                        !.isGeneratingAvatar = FALSE]
    /\ searches' = [searches EXCEPT ![s].stage = "settled"]

\* getUserProfileData settles: setUserProfile and the call of getAnimeBadge,
\* or the catch block
ProfileStageEnds ==
    /\ \E s \in SearchIds :
         /\ searches[s].stage = "profile"
         /\ \/ /\ ui' = [ui EXCEPT !.userProfile = SetBy(s, searches[s].username)]
               /\ searches' = [searches EXCEPT ![s].stage = "badge"]
            \/ \E m \in StageErrors : Fails(s, m)
    /\ UNCHANGED <<serviceVars, fnVars, usernameInput, latest>>

\* getAnimeBadge settles: setBadgeInfo, setIsGeneratingAvatar(true) and the
\* call of generateAvatar, or the catch block
BadgeStageEnds ==
    /\ \E s \in SearchIds :
         /\ searches[s].stage = "badge"
         /\ \/ /\ ui' = [ui EXCEPT !.badgeInfo = SetBy(s, searches[s].username),
                                   !.isGeneratingAvatar = TRUE]
               /\ searches' = [searches EXCEPT ![s].stage = "avatar"]
            \/ \E m \in StageErrors : Fails(s, m)
    /\ UNCHANGED <<serviceVars, fnVars, usernameInput, latest>>

\* generateAvatar settles: setAvatarUrl and the finally block, or the catch
\* block
AvatarStageEnds ==
    /\ \E s \in SearchIds :
         /\ searches[s].stage = "avatar"
         /\ \/ /\ ui' = [ui EXCEPT !.avatarUrl = SetBy(s, searches[s].username),
                                   !.isLoading = FALSE,
                                   !.isGeneratingAvatar = FALSE]
               /\ searches' = [searches EXCEPT ![s].stage = "settled"]
            \/ \E m \in StageErrors : Fails(s, m)
    /\ UNCHANGED <<serviceVars, fnVars, usernameInput, latest>>

AppNext ==
    \/ TypeUsername
    \/ Submit
    \/ ProfileStageEnds
    \/ BadgeStageEnds
    \/ AvatarStageEnds

\* the page as it is mounted, no service called yet
AppStart == ServiceInit /\ env = KeyNames /\ FnIdle /\ AppInit

\* the page, with the services standing for their outcomes
AppSpec == AppStart /\ [][AppNext]_vars

\* the event loop runs a timer that is due and delivers the rejection of an
\* aborted fetch; nothing obliges an upstream to answer
LiveSpec == Spec /\ WF_vars(TimerFires) /\ WF_vars(FetchAborts)

\* ------------------------------------------------------------------ claims

\* the value is absent (undefined or null) or an empty string
EmptyOrAbsent(x) == x.t \in {"undefined", "null"} \/ (x.t = "string" /\ x.v = <<>>)

\* the members of the object that the model's content, as parsed, holds
ContentMembers == ParseJSON(parserInput.text).members

\* C1: when getAnimeBadge returns, the four fields of the badge are present and
\* non-empty; when a field of the model's response is absent or empty,
\* getAnimeBadge throws and returns no badge.
C1_BadgeComplete ==
    (op = "getAnimeBadge" /\ pc = "done") =>
        /\ result = "returned" =>
              \A i \in 1..4 : ~EmptyOrAbsent(Property(retBadge, BadgeFields[i]))
        /\ (/\ resp.shape = "content"
            /\ \E i \in 1..4 : EmptyOrAbsent(Property(ContentMembers, BadgeFields[i])))
              => result = "threw" /\ retBadge = <<>>

\* a response with a character name and an empty badgeColor has been rejected
C1_Witness ==
    /\ op = "getAnimeBadge"
    /\ pc = "done"
    /\ resp.shape = "content"
    /\ ~EmptyOrAbsent(Property(ContentMembers, "characterName"))
    /\ Property(ContentMembers, "badgeColor") = JsStr(<<>>)
    /\ result = "threw"

HexDigits ==
    {"0", "1", "2", "3", "4", "5", "6", "7", "8", "9",
     "a", "b", "c", "d", "e", "f", "A", "B", "C", "D", "E", "F"}

\* /^#[0-9A-Fa-f]{6}$/
IsHexColor(x) ==
    /\ x.t = "string"
    /\ Len(x.v) = 7
    /\ x.v[1] = "#"
    /\ \A i \in 2..7 : x.v[i] \in HexDigits

\* C2: whenever getAnimeBadge returns a badge, its badgeColor matches
\* ^#[0-9A-Fa-f]{6}$ (a response with a badgeColor of another shape is not
\* returned).
C2_HexColor ==
    (op = "getAnimeBadge" /\ result = "returned") =>
        IsHexColor(Property(retBadge, "badgeColor"))

\* C3: a profile without a user, with an empty or missing login, or whose repos
\* is not a sequence fails with the invalid-input error, with no request issued
\* and no timer started; a profile with a login and an empty repos sequence
\* passes the validation and goes on to the request (issued once the key is read).
C3_InputValidation ==
    op = "getAnimeBadge" =>
        /\ (\/ ~profile.present
            \/ ~profile.hasUser
            \/ EmptyOrAbsent(profile.login)
            \/ ~profile.reposIsArray)
              => /\ pc = "done"
                 /\ result = "threw"
                 /\ err.msg = InvalidProfileMsg
                 /\ requests = <<>>
                 /\ timer.state = "unset"
        /\ (/\ profile.present
            /\ profile.hasUser
            /\ ~EmptyOrAbsent(profile.login)
            /\ profile.reposIsArray
            /\ profile.repos = <<>>)
              => /\ err.msg # InvalidProfileMsg
                 /\ timer.state # "unset"
                 /\ (keySet => requests = <<"openrouter">>)

\* a profile with no repositories has been accepted and its request issued
C3_Witness ==
    /\ op = "getAnimeBadge"
    /\ profile.reposIsArray
    /\ profile.repos = <<>>
    /\ pc = "fetching"
    /\ requests = <<"openrouter">>

\* the text is exactly a code fence: ```, optionally json, a newline, a
\* payload, a newline, ```
IsFence(t) ==
    LET h == IF Len(t) >= 4 /\ t[4] = JSONWORD THEN 5 ELSE 4
    IN  /\ Len(t) >= h + 4
        /\ \A i \in 1..3 : t[i] = BT
        /\ t[h] = NL
        /\ t[Len(t) - 3] = NL
        /\ \A i \in (Len(t) - 2)..Len(t) : t[i] = BT

\* the payload of such a text
FencePayload(t) ==
    LET h == IF Len(t) >= 4 /\ t[4] = JSONWORD THEN 5 ELSE 4
    IN  SubSeq(t, h + 1, Len(t) - 4)

\* C4, as claimed: when the model's trimmed text is exactly a code fence, the
\* text handed to the JSON parser equals the payload, for every payload.
C4_FenceRemoved ==
    (op = "getAnimeBadge" /\ parserInput.given /\ IsFence(Trim(resp.content))) =>
        parserInput.text = FencePayload(Trim(resp.content))

\* C4, amended: when the model's trimmed text is exactly a code fence, the text
\* handed to the JSON parser equals the payload without its leading and
\* trailing white space, for single-line and multi-line payloads; when nothing
\* is left of the payload, the fenced text itself is handed to the parser.
C4_FenceRemovedTrimmed ==
    (op = "getAnimeBadge" /\ parserInput.given /\ IsFence(Trim(resp.content))) =>
        parserInput.text =
            IF Trim(FencePayload(Trim(resp.content))) # <<>>
            THEN Trim(FencePayload(Trim(resp.content)))
            ELSE Trim(resp.content)

\* a fenced payload of several lines has been unwrapped
C4_Witness ==
    /\ op = "getAnimeBadge"
    /\ parserInput.given
    /\ IsFence(Trim(resp.content))
    /\ NL \in Range(Trim(FencePayload(Trim(resp.content))))
    /\ parserInput.text = FencePayload(Trim(resp.content))

\* C5: when the unwrapped text is not valid JSON, getAnimeBadge fails with the
\* generic invalid-response error, whatever the wording of the parser's error.
C5_InvalidResponse ==
    (op = "getAnimeBadge" /\ cause = "parse") =>
        result = "threw" /\ err.msg = InvalidResponseMsg

\* C6: when the response parses but lacks a required field, the error names
\* every missing field: a field's name is in the message exactly when the
\* field is absent or empty.
C6_NamesMissingFields ==
    (op = "getAnimeBadge" /\ cause = "missing") =>
        \A i \in 1..4 :
            Includes(err.msg, BadgeFields[i])
                <=> ~Truthy(Property(ContentMembers, BadgeFields[i]))

\* C7: for every non-success status and every body, getAnimeBadge fails with
\* an error whose message contains the status code.
C7_StatusInMessage ==
    (op = "getAnimeBadge" /\ cause = "http") =>
        result = "threw" /\ Includes(err.msg, ToString(resp.status))

\* the error a call fails with when its request timed out
TimedOutMsgOf(o) == IF o = "getAnimeBadge" THEN TimedOutMsg ELSE ImageTimedOutMsg

\* while the request is in flight the timer may fire, and it aborts the request
C8_FiringAborts ==
    (timer.state = "armed" /\ timer'.state = "fired") => aborted'

\* an aborted request in flight ends in the timed-out error and nothing else
C8_AbortedFails ==
    (pc = "fetching" /\ aborted) =>
        /\ pc' = "done"
        /\ result' = "threw"
        /\ err'.msg = TimedOutMsgOf(op)

\* after the deadline no request is issued and no result produced
C8_NothingAfter ==
    aborted => requests' = requests /\ (result' = "returned" => result = "returned")

\* the timed-out error is the error of an aborted request and of no other failure
C8_Distinct ==
    (op \in {"getAnimeBadge", "generateAvatar"} /\ pc = "done" /\ result = "threw") =>
        (cause = "abort" <=> err.msg = TimedOutMsgOf(op))

\* C8: if the text-generation or image-generation request has not responded
\* when the timer fires, the request is aborted and the call fails with the
\* timed-out error, which no non-success status and no network failure gives;
\* after the deadline the call issues no request and produces no result.
C8_Timeout ==
    /\ [](C8_Distinct /\ (aborted => timer.state = "fired"))
    /\ [][C8_FiringAborts /\ C8_AbortedFails /\ C8_NothingAfter]_vars

\* an image-generation request has timed out
C8_Witness ==
    /\ op = "generateAvatar"
    /\ pc = "done"
    /\ timer.state = "fired"
    /\ cause = "abort"
    /\ requests = <<"imagerouter">>
    /\ err.msg = ImageTimedOutMsg

\* an image reference is a non-empty string
IsImageReference(x) == x.t = "string" /\ x.v # <<>>

\* C9: the lookup generateAvatar never fails: for every badge argument and
\* every behaviour of the search endpoint it returns an image reference.
C9_NeverFails ==
    (op = "lookupAvatar" /\ pc = "done" /\ badge.present) =>
        result = "returned" /\ IsImageReference(retUrl)

\* C10: when badge.characterName is a key of the static map, the lookup
\* generateAvatar returns the URL mapped to it and issues no request; the
\* search is requested only when the name has no entry.
C10_MapShortCircuit ==
    op = "lookupAvatar" =>
        /\ KeyOf(badge.characterName) \in DOMAIN CharacterImages =>
              /\ pc = "done"
              /\ result = "returned"
              /\ retUrl = JsStr(<<CharacterImages[KeyOf(badge.characterName)]>>)
              /\ requests = <<>>
        /\ requests # <<>> => KeyOf(badge.characterName) \notin DOMAIN CharacterImages

\* the default image of a series, and the global default for any other series
SeriesDefault(anime) ==
    IF KeyOf(anime) = "Demon Slayer"
    THEN JsStr(<<"https://cdn.myanimelist.net/images/characters/15/271763.jpg">>)
    ELSE JsStr(<<"https://cdn.myanimelist.net/images/characters/2/284121.jpg">>)

\* C11: when the character name has no entry in the static map and the search
\* request fails (a non-success status or a network rejection), the lookup
\* generateAvatar returns the default image of badge.anime for "Naruto" and for
\* "Demon Slayer", the global default for any other series, and does not raise.
C11_SeriesDefault ==
    (op = "lookupAvatar" /\ pc = "done" /\ cause \in {"http", "network"}) =>
        result = "returned" /\ retUrl = SeriesDefault(badge.anime)

\* C12: getUserProfileData fails with the user-not-found error naming the
\* username whenever the user read answers 404, whatever becomes of the
\* repository read; for any other non-success status of the user response, or
\* of the repository response when the user response is a success, it fails
\* with an error carrying that status.
C12_StatusErrors ==
    (op = "getUserProfileData" /\ pc = "done" /\ userFetch.state = "resolved") =>
        /\ userFetch.resp.status = 404 =>
              result = "threw" /\ err.msg = UserNotFoundMsg(username)
        /\ (~Ok(userFetch.resp) /\ userFetch.resp.status # 404) =>
              result = "threw" /\ Includes(err.msg, ToString(userFetch.resp.status))
        /\ (Ok(userFetch.resp) /\ reposFetch.state = "resolved" /\ ~Ok(reposFetch.resp)) =>
              result = "threw" /\ Includes(err.msg, ToString(reposFetch.resp.status))

\* a read has failed: it was rejected, or it answered a non-success status
ReadFailed(f) == f.state = "rejected" \/ (f.state = "resolved" /\ ~Ok(f.resp))

\* C13: getUserProfileData issues the user read and the repository read
\* together, and returns a profile only after both have resolved with a
\* success; whenever either read is rejected or answers a non-success status,
\* in whatever order the two settle, the call fails and returns no profile.
C13_AllOrNothing ==
    op = "getUserProfileData" =>
        /\ userFetch.state # "none" /\ reposFetch.state # "none"
        /\ SubSeq(requests, 1, 2) = <<"github-user", "github-repos">>
        /\ result = "returned" <=> retProfile.present
        /\ retProfile.present =>
              /\ userFetch.state = "resolved" /\ Ok(userFetch.resp)
              /\ reposFetch.state = "resolved" /\ Ok(reposFetch.resp)
              /\ retProfile.user = username
        /\ (pc = "done" /\ (ReadFailed(userFetch) \/ ReadFailed(reposFetch))) =>
              result = "threw" /\ ~retProfile.present

\* the user read has answered a success and the repository read a non-success
\* status, and the call has failed without a profile
C13_Witness ==
    /\ op = "getUserProfileData"
    /\ pc = "done"
    /\ userFetch.state = "resolved" /\ Ok(userFetch.resp)
    /\ reposFetch.state = "resolved" /\ reposFetch.resp.status = 500
    /\ result = "threw"
    /\ ~retProfile.present

\* the response that the checks after Promise.all reject
RejectedResponse == IF ~Ok(userFetch.resp) THEN userFetch.resp ELSE reposFetch.resp

\* C14: when the profile API answers a non-success response whose body
\* carries the "API rate limit exceeded" marker, getUserProfileData fails with
\* the rate-limit error and not with the failed-to-fetch status error.
C14_RateLimited ==
    (/\ op = "getUserProfileData"
     /\ pc = "done"
     /\ cause = "http"
     /\ Includes(RejectedResponse.body, RateLimitMarker))
        => err.msg = RateLimitMsg

\* the authorization credentials: the values of the API keys, one of which an
\* upstream body or a transport error may repeat after "Bearer"
Credentials == { KeyValue(n) : n \in KeyNames }

\* C15: no error that getAnimeBadge or generateAvatar fails with, and no text
\* they write to the log, contains an authorization credential: the token
\* after "Bearer" is redacted on every failure path and the keys are never
\* logged.
C15_NoCredential ==
    op \in {"getAnimeBadge", "generateAvatar"} =>
        /\ Range(err.msg) \cap Credentials = {}
        /\ log \cap Credentials = {}

\* the error of the key getter of the operation
KeyNotSetMsg(o) == IF o = "getAnimeBadge" THEN OpenRouterKeyMsg ELSE ImageRouterKeyMsg

\* the key that the operation needs
KeyNeeded(o) == IF o = "getAnimeBadge" THEN "OPENROUTER_API_KEY" ELSE "IMAGEROUTER_API_KEY"

\* C16: when the key that a call needs is not set, getAnimeBadge and
\* generateAvatar fail with exactly the error of the key getter, and no
\* request is sent; of the errors raised inside the try block only this one
\* reaches the caller as it was raised.
C16_ConfigUnwrapped ==
    (op \in {"getAnimeBadge", "generateAvatar"} /\ pc = "done") =>
        /\ (cause # "invalidInput" /\ KeyNeeded(op) \notin env) =>
              /\ cause = "config"
              /\ result = "threw"
              /\ err = MkError("Error", KeyNotSetMsg(op))
              /\ requests = <<>>
        /\ (result = "threw" /\ cause \notin {"config", "invalidInput"}) => err # thrown

\* C17: no key is looked at when a service module is loaded, so loading never
\* fails for a missing key; getAnimeBadge fails for a missing key exactly when
\* OPENROUTER_API_KEY is missing and generateAvatar exactly when
\* IMAGEROUTER_API_KEY is missing, whatever other keys are set.
C17_ValidatedAtFirstUse ==
    /\ loaded # "failed"
    /\ (op \in {"getAnimeBadge", "generateAvatar"} /\ pc = "done" /\ cause # "invalidInput") =>
          (cause = "config" <=> KeyNeeded(op) \notin env)

\* C18: for every valid badge and every successful image-generation response
\* that carries a non-empty image.base64 payload p, the generative
\* generateAvatar returns exactly "data:image/jpeg;base64," followed by p.
C18_DataUrl ==
    (/\ op = "generateAvatar"
     /\ pc = "done"
     /\ Ok(resp)
     /\ resp.shape = "image"
     /\ resp.value.t = "string"
     /\ resp.value.v # <<>>
     /\ cause # "network")
        => /\ result = "returned"
           /\ retUrl = JsStr(<<"data:image/jpeg;base64,">> \o resp.value.v)

\* a payload of two chunks has been returned as a data URL
C18_Witness ==
    /\ op = "generateAvatar"
    /\ pc = "done"
    /\ resp.value = JsStr(<<"/9j/4AAQ", "SkZJRg==">>)
    /\ result = "returned"
    /\ retUrl = JsStr(<<"data:image/jpeg;base64,", "/9j/4AAQ", "SkZJRg==">>)

C20_EveryCallSettles ==
    (pc \in {"fetching", "reading", "readingRepos"}) ~> (pc = "done")

\* C21: when a fetch rejects, with an Error or with a value that is no Error
\* with a message, getUserProfileData, getAnimeBadge and the generative
\* generateAvatar fail with a wrapped error of their own: never with the
\* rejection value itself and never with an error raised by their own catch
\* handler.
C21_NoRawTransportError ==
    (/\ op \in {"getUserProfileData", "getAnimeBadge", "generateAvatar"}
     /\ pc = "done"
     /\ cause = "network")
        => /\ result = "threw"
           /\ err # thrown
           /\ err # HandlerTypeError

\* C23: for every valid profile, when the endpoint's content is the JSON
\* serialization of a badge B with four non-empty fields, bare or as a fence
\* that is the whole string, getAnimeBadge returns a badge equal to B, whatever
\* the profile holds.
C23_RoundTrip ==
    \A B \in { GoodMembers,
               BadgeMembers(JsStr(<<"Naruto">>), JsStr(<<"Demon Slayer">>),
                            JsStr(<<"reason">>), Orange),
               BadgeMembers(JsStr(<<"Tanjiro">>), JsStr(<<"Demon Slayer">>),
                            JsStr(<<"reason">>), Orange) } :
        (/\ op = "getAnimeBadge"
         /\ pc = "done"
         /\ cause # "network"
         /\ resp.shape = "content"
         /\ resp.content \in { ObjectText(B), PrettyObjectText(B),
                               Fenced(TRUE, ObjectText(B)), Fenced(FALSE, ObjectText(B)),
                               Fenced(TRUE, PrettyObjectText(B)),
                               Fenced(FALSE, PrettyObjectText(B)) })
            => result = "returned" /\ retBadge = B

\* a badge serialized over several lines inside a json fence has come back
\* equal, for a profile with a repository
C23_Witness ==
    /\ op = "getAnimeBadge"
    /\ pc = "done"
    /\ profile.repos # <<>>
    /\ resp.content = Fenced(TRUE, PrettyObjectText(GoodMembers))
    /\ result = "returned"
    /\ retBadge = GoodMembers

\* the requests that one invocation may have issued
RequestsOf(o) ==
    CASE o = "getAnimeBadge" -> {<<>>, <<"openrouter">>}
      [] o = "generateAvatar" -> {<<>>, <<"imagerouter">>}
      [] o = "lookupAvatar" -> {<<>>, <<"jikan">>}
      [] o = "getUserProfileData" -> {<<"github-user", "github-repos">>}
      [] OTHER -> {<<>>}

\* a call that has settled issues nothing more
C24_NothingAfterSettling == pc = "done" => requests' = requests

\* C24: no operation retries: on every path one invocation of getAnimeBadge
\* issues at most one text-generation request, one invocation of
\* generateAvatar at most one image or character-search request, and one
\* invocation of getUserProfileData exactly one user read and one repository
\* read; a failure is followed by no further request.
C24_NoRetry ==
    /\ [](requests \in RequestsOf(op))
    /\ [][C24_NothingAfterSettling]_vars

\* a text-generation request has failed on the network and was issued once
C24_Witness ==
    /\ op = "getAnimeBadge"
    /\ pc = "done"
    /\ cause = "network"
    /\ result = "threw"
    /\ requests = <<"openrouter">>

\* C27: the error kinds of getAnimeBadge do not collide: the invalid-response
\* error is raised only when a JSON parse failed, and an error reaches the
\* caller unwrapped, as the configuration error does, only when the key getter
\* threw it; an HTTP error, a network failure or a missing-fields failure comes
\* under neither kind, whatever the upstream text holds.
C27_KindsDistinct ==
    (op = "getAnimeBadge" /\ pc = "done" /\ result = "threw") =>
        /\ err.msg = InvalidResponseMsg => cause \in {"parse", "bodyparse"}
        /\ (err = thrown /\ cause # "invalidInput") => cause = "config"

\* C28: on every exit path of getAnimeBadge and of the generative
\* generateAvatar other than the timeout itself, the abort timer started by
\* the call has been cleared when the call settles, so that no timer of a
\* finished call fires later.
C28_TimerCleared ==
    (op \in {"getAnimeBadge", "generateAvatar"} /\ pc = "done" /\ cause # "abort") =>
        timer.state \in {"unset", "cleared"}

\* the badge that getAnimeBadge returned, as the argument of generateAvatar
ReturnedBadge ==
    MkBadge(TRUE, Property(retBadge, "characterName"), Property(retBadge, "anime"),
            Property(retBadge, "badgeColor"))

\* C29: every badge that getAnimeBadge returns passes the input validation of
\* both generateAvatar variants, so neither fails with "Invalid badge data
\* provided" on a badge that getAnimeBadge produced.
C29_BadgeAccepted ==
    (op = "getAnimeBadge" /\ result = "returned") =>
        ValidBadge(ReturnedBadge) /\ ValidLookupBadge(ReturnedBadge)

\* a badge has been returned whose fields are those of the response
C29_Witness ==
    /\ op = "getAnimeBadge"
    /\ result = "returned"
    /\ ReturnedBadge = MkBadge(TRUE, JsStr(<<"Tanjiro">>), JsStr(<<"Demon Slayer">>), Orange)

\* C25: the fence removal is idempotent: for every text, applying it to its
\* own output gives the same output as applying it once.
C25_Idempotent ==
    (fn = "unwrap" /\ fnPc = "applied") => fnTwice = fnOnce

\* the most repositories, and the longest bio and description, that a compact
\* summary holds: the limits of the most generous variant of the prompt builder
PromptRepoLimit == 10

PromptBioLimit == 120

PromptDescLimit == 80

\* the length of a text, 0 for null
TextLen(x) == IF x.t = "string" THEN Len(x.v) ELSE 0

\* C26: the summary that the prompt builder of getAnimeBadge embeds in the
\* prompt is bounded whatever the size of the profile: it holds at most a
\* fixed number of repositories, and the bio and the descriptions are cut to
\* fixed lengths.
C26_PromptBounded ==
    (fn = "prompt" /\ fnPc = "applied") =>
        /\ Len(fnSummary.top_repos) <= PromptRepoLimit
        /\ TextLen(fnSummary.bio) <= PromptBioLimit
        /\ \A i \in 1..Len(fnSummary.top_repos) :
                TextLen(fnSummary.top_repos[i].description) <= PromptDescLimit

\* the searches that await a stage
InFlight == { s \in SearchIds : searches[s].stage \in {"profile", "badge", "avatar"} }

\* the values of the state of App that a search writes
ResultFields == {"userProfile", "badgeInfo", "avatarUrl", "error"}

\* C22: in the page, with its search form, at most one search is in flight at
\* any time and every userProfile, badgeInfo, avatarUrl or error that a search
\* wrote to the state was written by the search started last: no result is
\* applied after a newer search has started.
C22_LatestSearchOnly ==
    /\ Cardinality(InFlight) <= 1
    /\ InFlight \subseteq {latest}
    /\ \A f \in ResultFields : (ui[f].set /\ ui[f].by # 0) => ui[f].by = latest

\* a second search is in flight after the first settled, and the profile on
\* the page is the second search's
C22_Witness ==
    /\ latest = 2
    /\ searches[1].stage = "settled"
    /\ searches[2].stage = "badge"
    /\ ui.userProfile = SetBy(2, searches[2].username)

\* C30: the three stages of handleSearch run strictly in order, each after
\* the one before returned: avatarUrl is set only if badgeInfo is, and
\* badgeInfo only if userProfile is; a search awaiting the badge has written
\* its profile and one awaiting the avatar its badge; when a search has
\* settled, isLoading and isGeneratingAvatar are false and either error is set
\* or all three results are.
C30_StagesInOrder ==
    /\ ui.avatarUrl.set => ui.badgeInfo.set
    /\ ui.badgeInfo.set => ui.userProfile.set
    /\ \A s \in SearchIds :
          /\ searches[s].stage = "profile" => ~ui.userProfile.set /\ ui.isLoading
          /\ searches[s].stage = "badge" =>
                ui.userProfile.by = s /\ ~ui.badgeInfo.set /\ ui.isLoading
          /\ searches[s].stage = "avatar" =>
                ui.badgeInfo.by = s /\ ~ui.avatarUrl.set /\ ui.isGeneratingAvatar
    /\ (latest > 0 /\ searches[latest].stage = "settled") =>
          /\ ~ui.isLoading
          /\ ~ui.isGeneratingAvatar
          /\ \/ ui.error.set
             \/ ui.userProfile.set /\ ui.badgeInfo.set /\ ui.avatarUrl.set

\* a search has settled after its badge stage failed with an error that has
\* no message: the profile is on the page, the badge is not, the error is
C30_Witness ==
    /\ latest = 1
    /\ searches[1].stage = "settled"
    /\ ui.userProfile.set
    /\ ~ui.badgeInfo.set
    /\ ui.error = SetBy(1, "An unknown error occurred.")

====
